---------------------------- MODULE Spec2Model ----------------------------
(***************************************************************************)
(* A model of scintools' Dynspec class (src/scintools/dynspec.py): the     *)
(* dynamic-spectrum record, its preprocessing stages (trim_edges, refill,  *)
(* correct_band, zap), calc_acf, calc_sspec and the curvature selection of *)
(* fit_arc.                                                                *)
(*                                                                         *)
(* Numbers.  A float is modelled as an exact rational <<n, d>> in lowest   *)
(* terms with d > 0; d = 0 encodes the IEEE specials: <<0,0>> is NaN,      *)
(* <<1,0>> is +inf and <<-1,0>> is -inf.  Rounding error of the binary     *)
(* floating-point format is not modelled: "equal" means equal as exact     *)
(* rationals.                                                              *)
(*                                                                         *)
(* Matrices.  A 2-D numpy array is a sequence of rows, each a sequence of  *)
(* numbers; row index = channel, column index = sub-integration.  Python's *)
(* 0-based index k is TLA+ index k+1.                                      *)
(*                                                                         *)
(* Arrays are objects.  load_dyn_obj binds self.dyn to the array of the    *)
(* object it copies; source holds that array's contents (dyn), what they   *)
(* were at construction (given), and whether self.dyn still names that     *)
(* array (shared).                                                         *)
(***************************************************************************)
EXTENDS Integers, Sequences, FiniteSets, TLC

VARIABLES
    self,    \* the Dynspec object: a record of its attributes
    old,     \* the object as it was when the last method was called
    pc,      \* the method that ran last / position in default_processing
    err,     \* the exception the last method raised, "none" if it returned
    arg,     \* the arguments of the last call
    ncalls,  \* number of method calls made so far
    source   \* the array of the object self was constructed from

vars == <<self, old, pc, err, arg, ncalls, source>>

---------------------------------------------------------------------------
(* Bounds of the model                                                     *)

MaxCalls == 2        \* method calls made on one object
MaxChan == 2         \* channels of a loaded matrix
MaxSub == 3          \* sub-integrations of a loaded matrix
TrimMaxChan == 5     \* channels of a trim_edges input
TrimMaxSub == 2      \* sub-integrations of a trim_edges input
RefillMaxChan == 2   \* channels of a refill input
RefillMaxSub == 3    \* sub-integrations of a refill input
RefillMaxMissing == 2  \* missing cells of a refill input
BandMaxChan == 3     \* channels of a correct_band input
BandMaxSub == 3      \* sub-integrations of a correct_band input
AcfMaxChan == 3      \* channels of a calc_acf input
AcfMaxSub == 3       \* sub-integrations of a calc_acf input
SspecMaxChan == 4    \* channels of a calc_sspec input
SspecMaxSub == 4     \* sub-integrations of a calc_sspec input
MaxTrials == 3       \* trial curvatures of a fit_arc call
ArcMaxChan == 2      \* channels of a fit_arc object
ArcMaxSub == 2       \* sub-integrations of a fit_arc object
LoadMaxChan == 3     \* channels of a loaded file
LoadMaxSub == 2      \* sub-integrations of a loaded file
AddMaxChan == 2      \* channels of the records added
AddMaxSub == 2       \* sub-integrations of the records added
AddMaxExtra == 4     \* gap sub-integrations counted between two records
SeqMaxChan == 3      \* channels of a record of the sequences
SeqMaxSub == 1       \* sub-integrations of a record of the sequences
NormMaxChan == 4     \* channels of a norm_sspec object
NormMaxSub == 3      \* sub-integrations of a norm_sspec object

---------------------------------------------------------------------------
(* Arguments the methods are called with                                   *)

ZapSigmas == {1, 5}  \* sigma of zap: a tight threshold and the default
ZapKernel == 7       \* m of zap: the default kernel size
ArcStartBins == {0, 9}  \* startbin of fit_arc: no mask and the default
NormMaxNormFac == 2  \* maxnormfac of norm_sspec: the default
NormStartBins == {1, 2}  \* startbin of norm_sspec: below the default
NormCutMids == {0, 2}  \* cutmid of norm_sspec: the centre bin only, the default

---------------------------------------------------------------------------
(* Exact arithmetic with NaN and infinities                                *)

NaN == <<0, 0>>
Inf == <<1, 0>>
NegInf == <<-1, 0>>

IsNaN(x) == x[2] = 0 /\ x[1] = 0
IsInf(x) == x[2] = 0 /\ x[1] # 0
IsFinite(x) == x[2] > 0

Abs(n) == IF n < 0 THEN -n ELSE n
Sgn(n) == IF n < 0 THEN -1 ELSE IF n = 0 THEN 0 ELSE 1

RECURSIVE Gcd(_, _)
Gcd(a, b) == IF b = 0 THEN a ELSE Gcd(b, a % b)

\* n/d in lowest terms with a positive denominator (d # 0)
Norm(n, d) ==
    LET g == Gcd(Abs(n), Abs(d))
        s == IF d < 0 THEN -1 ELSE 1
    IN  <<(s * n) \div g, (s * d) \div g>>

R(n) == <<n, 1>>

RNeg(a) == <<-a[1], a[2]>>

RAdd(a, b) ==
    IF IsNaN(a) \/ IsNaN(b) THEN NaN
    ELSE IF IsInf(a) THEN (IF IsInf(b) /\ b[1] # a[1] THEN NaN ELSE a)
    ELSE IF IsInf(b) THEN b
    ELSE LET g == Gcd(a[2], b[2])
         IN  Norm(a[1] * (b[2] \div g) + b[1] * (a[2] \div g), (a[2] \div g) * b[2])

RSub(a, b) == RAdd(a, RNeg(b))

RMul(a, b) ==
    IF IsNaN(a) \/ IsNaN(b) THEN NaN
    ELSE IF IsInf(a) \/ IsInf(b)
         THEN (IF a[1] = 0 \/ b[1] = 0 THEN NaN ELSE <<Sgn(a[1]) * Sgn(b[1]), 0>>)
    ELSE IF a[1] = 0 \/ b[1] = 0 THEN R(0)
    ELSE LET g == Gcd(Abs(a[1]), b[2])
             h == Gcd(Abs(b[1]), a[2])
         IN  Norm((a[1] \div g) * (b[1] \div h), (a[2] \div h) * (b[2] \div g))

\* IEEE division: x/0 is +-inf, 0/0 and inf/inf are NaN
RDiv(a, b) ==
    IF IsNaN(a) \/ IsNaN(b) THEN NaN
    ELSE IF IsInf(a) THEN (IF IsInf(b) THEN NaN
                           ELSE <<a[1] * (IF b[1] < 0 THEN -1 ELSE 1), 0>>)
    ELSE IF IsInf(b) THEN R(0)
    ELSE IF b[1] = 0 THEN (IF a[1] = 0 THEN NaN ELSE <<Sgn(a[1]), 0>>)
    ELSE IF a[1] = 0 THEN R(0)
    ELSE LET g == Gcd(Abs(a[1]), Abs(b[1]))
             h == Gcd(a[2], b[2])
         IN  Norm((a[1] \div g) * (b[2] \div h), (a[2] \div h) * (b[1] \div g))

RAbs(a) == <<Abs(a[1]), a[2]>>

\* a < b as IEEE compares: false as soon as a NaN is involved
RLess(a, b) ==
    IF IsNaN(a) \/ IsNaN(b) THEN FALSE
    ELSE IF IsInf(a) THEN a[1] < 0 /\ b # a
    ELSE IF IsInf(b) THEN b[1] > 0
    ELSE LET g == Gcd(a[2], b[2])
         IN  a[1] * (b[2] \div g) < b[1] * (a[2] \div g)

\* a == b as IEEE compares: NaN equals nothing
REq(a, b) == ~IsNaN(a) /\ ~IsNaN(b) /\ a = b

RECURSIVE RSum(_)
RSum(s) == IF Len(s) = 0 THEN R(0) ELSE RAdd(Head(s), RSum(Tail(s)))

\* np.mean of a 1-D sequence (0/0 = NaN for an empty one)
RMean(s) == RDiv(RSum(s), R(Len(s)))

\* Python's round(x, 2) of a finite x: to the nearest 1/100, ties to even
RRound2(x) ==
    LET n == 100 * x[1]
        q == n \div x[2]
        r == n % x[2]
        up == (2 * r > x[2]) \/ (2 * r = x[2] /\ q % 2 = 1)
    IN  IF ~IsFinite(x) THEN x ELSE Norm(IF up THEN q + 1 ELSE q, 100)

\* Python's round(x, ndigits) of a finite x, scale = 10**ndigits: to the
\* nearest 1/scale, ties to even
RRoundTo(x, scale) ==
    LET n == scale * x[1]
        q == n \div x[2]
        r == n % x[2]
        up == (2 * r > x[2]) \/ (2 * r = x[2] /\ q % 2 = 1)
    IN  IF ~IsFinite(x) THEN x ELSE Norm(IF up THEN q + 1 ELSE q, scale)

\* round(x, 5) and round(x)
RRound5(x) == RRoundTo(x, 100000)
RRound0(x) == RRoundTo(x, 1)

RECURSIVE RMax(_)
RMax(s) == IF Len(s) = 1 THEN s[1]
           ELSE LET m == RMax(Tail(s)) IN IF RLess(m, s[1]) THEN s[1] ELSE m

RECURSIVE RMin(_)
RMin(s) == IF Len(s) = 1 THEN s[1]
           ELSE LET m == RMin(Tail(s)) IN IF RLess(s[1], m) THEN s[1] ELSE m

---------------------------------------------------------------------------
(* Matrices                                                                *)

NRows(m) == Len(m)
NCols(m) == IF Len(m) = 0 THEN 0 ELSE Len(m[1])
Shape(m) == <<NRows(m), NCols(m)>>

Column(m, j) == [i \in 1..NRows(m) |-> m[i][j]]

\* all entries of m, row after row (numpy's C order)
RECURSIVE Ravel(_)
Ravel(m) == IF Len(m) = 0 THEN <<>> ELSE Head(m) \o Ravel(Tail(m))

AllFinite(m) == \A i \in 1..NRows(m) : \A j \in 1..NCols(m) : IsFinite(m[i][j])

---------------------------------------------------------------------------
(* The Dynspec object                                                      *)

\* Attributes that exist only once a stage has stored them (hasattr); a
\* record field of an attribute not in self.has holds a placeholder.
NoSspec == [rows |-> 0, cols |-> 0, of |-> <<>>, prewhite |-> FALSE, nanrows |-> 0]

\* The attributes load_file / load_dyn_obj set, for a channel-by-time matrix
\* d on a uniform ascending frequency axis starting at f0 with spacing df and
\* sub-integrations of dt seconds
NewDynspec(d, f0, df, dt) ==
    LET nchan == NRows(d)
        nsub == NCols(d)
        freqs == [i \in 1..nchan |-> RAdd(f0, RMul(R(i - 1), df))]
    IN  [dyn |-> d,
         freqs |-> freqs,
         times |-> [j \in 1..nsub |-> RMul(R(j), dt)],
         nchan |-> nchan,
         nsub |-> nsub,
         bw |-> RRound2(RAdd(RSub(freqs[nchan], freqs[1]), df)),
         df |-> df,
         freq |-> RRound2(RMean(freqs)),
         dt |-> dt,
         has |-> {"mjd"},
         bandpass |-> <<>>,
         acf |-> <<>>,
         sspec |-> NoSspec,
         fdop |-> <<>>,
         tdel |-> <<>>,
         eta |-> R(0),
         tmodel |-> <<>>,
         mjd |-> R(10),
         tobs |-> RMul(dt, R(nsub)),
         header |-> <<<<"MJD0:", R(10)>>>>,
         normsspec |-> <<>>,
         normsspecavg |-> <<>>]

---------------------------------------------------------------------------
(* load_file                                                               *)

\* A psrflux file is its comment lines, each a key and a value, and its data
\* rows, each with the columns isub, ichan, tmin (minutes), freq and flux
\* (the flux errors are read and not used).

\* The object before the constructor has set any attribute
NoObject ==
    [dyn |-> <<>>, freqs |-> <<>>, times |-> <<>>, nchan |-> 0, nsub |-> 0,
     bw |-> NaN, df |-> NaN, freq |-> NaN, dt |-> NaN, has |-> {},
     bandpass |-> <<>>, acf |-> <<>>, sspec |-> NoSspec, fdop |-> <<>>,
     tdel |-> <<>>, eta |-> R(0), tmodel |-> <<>>, mjd |-> NaN, tobs |-> NaN,
     header |-> <<>>, normsspec |-> <<>>, normsspecavg |-> <<>>]

\* np.unique of a 1-D array: its distinct values in ascending order
np_unique(q) ==
    LET S == {q[i] : i \in 1..Len(q)}
    IN  [k \in 1..Cardinality(S) |->
            CHOOSE x \in S : Cardinality({y \in S : RLess(y, x)}) = k - 1]

\* One column of rawdata
Column_of(file, name) == [r \in 1..Len(file.rows) |-> file.rows[r][name]]

\* The value of the last comment line whose first word is 'MJD0:', as a
\* one-element sequence; empty when there is no such line
header_mjd(header) ==
    LET at == {k \in 1..Len(header) : header[k][1] = "MJD0:"}
    IN  IF at = {} THEN <<>>
        ELSE <<header[CHOOSE k \in at : \A l \in at : l <= k][2]>>

\* The attributes lines 106-121 compute from the columns
load_scalars(file) ==
    LET times == np_unique([r \in 1..Len(file.rows) |->
                               RMul(file.rows[r].tmin, R(60))])
        col == Column_of(file, "freq")
        nchan0 == RMax(Column_of(file, "ichan"))[1]
        bw0 == RSub(col[Len(col)], col[1])
        df == RRound5(RDiv(bw0, R(nchan0)))
        nsub == RMax(Column_of(file, "isub"))[1] + 1
        dt == RRound0(RDiv(times[Len(times)], R(nsub)))
        freqs == np_unique(col)
    IN  [times |-> times, freqs |-> freqs, nchan |-> nchan0 + 1, nsub |-> nsub,
         df |-> df, bw |-> RRound2(RAdd(bw0, df)), dt |-> dt,
         tobs |-> RMul(dt, R(nsub)), freq |-> RRound2(RMean(freqs))]

\* fluxes.reshape([nsub, nchan]).transpose(): row ichan, column isub
reshape_fluxes(file, nsub, nchan) ==
    [i \in 1..nchan |-> [j \in 1..nsub |->
        file.rows[(j - 1) * nchan + i].flux]]

\* np.flip(fluxes, 0)
flip_rows(d) == [i \in 1..Len(d) |-> d[Len(d) + 1 - i]]

\* The exception load_file raises before the processing, "none" if it
\* does not: reshape of a column whose length is not nsub*nchan
load_file_err(file) ==
    LET a == load_scalars(file)
    IN  IF Len(file.rows) # a.nsub * a.nchan THEN "ValueError" ELSE "none"

\* load_file with df and bw made positive and the flip of the flux matrix
\* (line 128) left out
m_load_file(file) ==
    LET a == load_scalars(file)
        mjd == header_mjd(file.header)
        set == [NoObject EXCEPT
                   !.header = file.header,
                   !.mjd = IF mjd = <<>> THEN NaN ELSE mjd[1],
                   !.has = IF mjd = <<>> THEN {} ELSE {"mjd"},
                   !.times = a.times, !.freqs = a.freqs, !.nchan = a.nchan,
                   !.nsub = a.nsub, !.df = RAbs(a.df), !.bw = RAbs(a.bw),
                   !.dt = a.dt, !.tobs = a.tobs, !.freq = a.freq]
    IN  IF load_file_err(file) # "none" THEN set
        ELSE [set EXCEPT !.dyn = reshape_fluxes(file, a.nsub, a.nchan)]

\* The object load_file has built when it reaches the processing (line
\* 133), or when it raises
load_file(file) ==
    LET a == load_scalars(file)
        mjd == header_mjd(file.header)
        flip == RLess(a.df, R(0))
        set == [NoObject EXCEPT
                   !.header = file.header,
                   !.mjd = IF mjd = <<>> THEN NaN ELSE mjd[1],
                   !.has = IF mjd = <<>> THEN {} ELSE {"mjd"},
                   !.times = a.times, !.freqs = a.freqs, !.nchan = a.nchan,
                   !.nsub = a.nsub, !.df = a.df, !.bw = a.bw,
                   !.dt = a.dt, !.tobs = a.tobs, !.freq = a.freq]
        fluxes == reshape_fluxes(file, a.nsub, a.nchan)
    IN  IF load_file_err(file) # "none" THEN set
        ELSE [set EXCEPT !.df = IF flip THEN RNeg(a.df) ELSE a.df,
                         !.bw = IF flip THEN RNeg(a.bw) ELSE a.bw,
                         !.dyn = IF flip THEN flip_rows(fluxes) ELSE fluxes]

---------------------------------------------------------------------------
(* __add__, BasicDyn and load_dyn_obj                                      *)

\* len(np.arange(start, stop, step)) for step > 0: ceil((stop-start)/step)
arange_len(start, stop, step) ==
    LET q == RDiv(RSub(stop, start), step)
    IN  IF ~RLess(start, stop) THEN 0 ELSE -((-q[1]) \div q[2])

\* np.arange(start, stop, step)
arange(start, stop, step) ==
    [k \in 1..arange_len(start, stop, step) |-> RAdd(start, RMul(R(k - 1), step))]

\* timegap = round((other.mjd - self.mjd)*86400 - self.tobs, 2)
add_timegap(s, other) ==
    RRound2(RSub(RMul(RSub(other.mjd, s.mjd), R(86400)), s.tobs))

\* extratimes = np.arange(self.dt/2, timegap, dt)
add_extratimes(s, other) ==
    arange(RDiv(s.dt, R(2)), add_timegap(s, other), s.dt)

\* The exception __add__ raises before the new object is processed, "none"
\* if it does not: an operand without mjd (line 62), extratimes[-1] of an
\* empty array (line 73), np.concatenate of matrices of different heights
add_err(s, other) ==
    IF "mjd" \notin s.has \/ "mjd" \notin other.has THEN "AttributeError"
    ELSE IF Len(add_extratimes(s, other)) = 0 THEN "IndexError"
    ELSE IF NRows(s.dyn) # NRows(other.dyn) THEN "ValueError"
    ELSE "none"

\* dyngap filled with the missing-data marker NaN instead of np.zeros
m_add_dyngap(nrows, nextra) == [i \in 1..nrows |-> [j \in 1..nextra |-> NaN]]

\* dyngap = np.zeros([np.shape(self.dyn)[0], nextra])
add_dyngap(nrows, nextra) == [i \in 1..nrows |-> [j \in 1..nextra |-> R(0)]]

\* nsub without the samples of the gap: self.nsub + other.nsub
m_add_nsub(s, other) == s.nsub + other.nsub

\* nsub = self.nsub + nextra + other.nsub
add_nsub(s, other) == s.nsub + Len(add_extratimes(s, other)) + other.nsub

\* The object Dynspec(dyn=BasicDyn(...)) of line 84 before its processing:
\* load_dyn_obj copies the attributes BasicDyn was given, and the new
\* object has no derived attribute yet (s itself when __add__ raises)
add(s, other) ==
    LET extratimes == add_extratimes(s, other)
        nextra == Len(extratimes)
        last == s.times[Len(s.times)]
        dyngap == add_dyngap(NRows(s.dyn), nextra)
    IN  IF add_err(s, other) # "none" THEN s
        ELSE [NoObject EXCEPT
                !.header = s.header \o other.header,
                !.times = s.times
                          \o [k \in 1..nextra |-> RAdd(last, extratimes[k])]
                          \o [k \in 1..Len(other.times) |->
                                RAdd(RAdd(last, extratimes[nextra]), other.times[k])],
                !.freqs = s.freqs, !.nchan = s.nchan,
                !.nsub = add_nsub(s, other),
                !.bw = s.bw, !.df = s.df, !.freq = s.freq, !.dt = s.dt,
                !.tobs = RAdd(RAdd(s.tobs, add_timegap(s, other)), other.tobs),
                !.mjd = IF RLess(other.mjd, s.mjd) THEN other.mjd ELSE s.mjd,
                !.has = {"mjd"},
                !.dyn = [i \in 1..NRows(s.dyn) |->
                            s.dyn[i] \o dyngap[i] \o other.dyn[i]]]

---------------------------------------------------------------------------
(* trim_edges                                                              *)

\* sum(abs(row)) == 0
RowSumIsZero(row) == REq(RSum([j \in 1..Len(row) |-> RAbs(row[j])]), R(0))

\* trim_bottom with the row test moved to the end of the loop body (do-while)
RECURSIVE m_trim_bottom(_, _)
m_trim_bottom(d, f) ==
    IF Len(d) = 0 THEN [dyn |-> d, freqs |-> f, err |-> "IndexError"]
    ELSE IF Len(d) = 1 THEN [dyn |-> <<>>, freqs |-> <<>>, err |-> "IndexError"]
    ELSE IF RowSumIsZero(d[2]) THEN m_trim_bottom(Tail(d), Tail(f))
    ELSE [dyn |-> Tail(d), freqs |-> Tail(f), err |-> "none"]

\* The "Trim bottom" loop; self.dyn[0] of a matrix without rows raises
RECURSIVE trim_bottom(_, _)
trim_bottom(d, f) ==
    IF Len(d) = 0 THEN [dyn |-> d, freqs |-> f, err |-> "IndexError"]
    ELSE IF RowSumIsZero(d[1]) THEN trim_bottom(Tail(d), Tail(f))
    ELSE [dyn |-> d, freqs |-> f, err |-> "none"]

\* trim_top with the while of line 533 written as an if: at most one row
\* is removed
m_trim_top(d, f) ==
    IF Len(d) = 0 THEN [dyn |-> d, freqs |-> f, err |-> "IndexError"]
    ELSE IF RowSumIsZero(d[Len(d)])
         THEN [dyn |-> SubSeq(d, 1, Len(d) - 1),
               freqs |-> SubSeq(f, 1, Len(f) - 1), err |-> "none"]
    ELSE [dyn |-> d, freqs |-> f, err |-> "none"]

\* The "Trim top" loop
RECURSIVE trim_top(_, _)
trim_top(d, f) ==
    IF Len(d) = 0 THEN [dyn |-> d, freqs |-> f, err |-> "IndexError"]
    ELSE IF RowSumIsZero(d[Len(d)])
         THEN trim_top(SubSeq(d, 1, Len(d) - 1), SubSeq(f, 1, Len(f) - 1))
    ELSE [dyn |-> d, freqs |-> f, err |-> "none"]

\* The exception trim_edges raises on s, "none" if it returns
trim_edges_err(s) == trim_bottom(s.dyn, s.freqs).err

\* The object after trim_edges (as it is left when the call raises)
trim_edges(s) ==
    LET b == trim_bottom(s.dyn, s.freqs)
        t == trim_top(b.dyn, b.freqs)
    IN  IF b.err # "none"
        THEN [s EXCEPT !.dyn = b.dyn, !.freqs = b.freqs]
        ELSE [s EXCEPT !.dyn = t.dyn,
                       !.freqs = t.freqs,
                       !.nchan = Len(t.freqs),
                       !.bw = RRound2(RAdd(RSub(RMax(t.freqs), RMin(t.freqs)), s.df)),
                       !.freq = RRound2(RMean(t.freqs))]

---------------------------------------------------------------------------
(* refill                                                                  *)

\* self.dyn[self.dyn <= 0] = np.nan: the comparison also catches negatives
m_zeros_to_nan(d) ==
    [i \in 1..NRows(d) |-> [j \in 1..NCols(d) |->
        IF RLess(d[i][j], R(0)) \/ REq(d[i][j], R(0)) THEN NaN ELSE d[i][j]]]

\* self.dyn[self.dyn == 0] = np.nan
zeros_to_nan(d) ==
    [i \in 1..NRows(d) |-> [j \in 1..NCols(d) |->
        IF REq(d[i][j], R(0)) THEN NaN ELSE d[i][j]]]

\* The cells np.ma.masked_invalid leaves unmasked, as <<row, column>>
ValidPoints(d) ==
    {p \in (1..NRows(d)) \X (1..NCols(d)) : IsFinite(d[p[1]][p[2]])}

\* Twice the signed area of the triangle a, b, c
Orient(a, b, c) ==
    (b[2] - a[2]) * (c[1] - a[1]) - (b[1] - a[1]) * (c[2] - a[2])

\* p lies in the closed, non-degenerate triangle t = <<a, b, c>>
InTriangle(p, t) ==
    LET o1 == Orient(t[1], t[2], p)
        o2 == Orient(t[2], t[3], p)
        o3 == Orient(t[3], t[1], p)
    IN  /\ Orient(t[1], t[2], t[3]) # 0
        /\ \/ (o1 >= 0 /\ o2 >= 0 /\ o3 >= 0)
           \/ (o1 <= 0 /\ o2 <= 0 /\ o3 <= 0)

\* Qhull cannot triangulate fewer than three points or points on one line
Degenerate(pts) ==
    \A a \in pts : \A b \in pts : \A c \in pts : Orient(a, b, c) = 0

\* The triangles a Delaunay triangulation of pts may be made of: their
\* corners are in pts and no other point of pts lies in them.  Which of
\* them it uses where several overlap (cocircular grid points) is Qhull's
\* choice.
Simplices(pts) ==
    {t \in pts \X pts \X pts :
        /\ t[1][1] < t[2][1] \/ (t[1][1] = t[2][1] /\ t[1][2] < t[2][2])
        /\ t[2][1] < t[3][1] \/ (t[2][1] = t[3][1] /\ t[2][2] < t[3][2])
        /\ Orient(t[1], t[2], t[3]) # 0
        /\ \A q \in pts : InTriangle(q, t) => q \in {t[1], t[2], t[3]}}

\* Linear (barycentric) interpolation of the values at t's corners, at p
Barycentric(d, t, p) ==
    LET area == Orient(t[1], t[2], t[3])
        w1 == Norm(Orient(p, t[2], t[3]), area)
        w2 == Norm(Orient(t[1], p, t[3]), area)
        w3 == Norm(Orient(t[1], t[2], p), area)
    IN  RAdd(RAdd(RMul(w1, d[t[1][1]][t[1][2]]), RMul(w2, d[t[2][1]][t[2][2]])),
             RMul(w3, d[t[3][1]][t[3][2]]))

\* What the interpolant over the triangles tris may give at cell p: the
\* linear interpolation in a triangle holding p, NaN outside all of them
\* (outside the convex hull of the valid cells)
GridValues(d, tris, p) ==
    LET ts == {t \in tris : InTriangle(p, t)}
    IN  IF ts = {} THEN {NaN} ELSE {Barycentric(d, t, p) : t \in ts}

\* The rows the interpolant may give for cells j.. of row i
RECURSIVE GridRows(_, _, _, _)
GridRows(d, tris, i, j) ==
    IF j > NCols(d) THEN {<<>>}
    ELSE {<<v>> \o rest : v \in GridValues(d, tris, <<i, j>>),
                          rest \in GridRows(d, tris, i, j + 1)}

\* The matrices the interpolant may give for rows i.. of the grid
RECURSIVE GridFrom(_, _, _)
GridFrom(d, tris, i) ==
    IF i > NRows(d) THEN {<<>>}
    ELSE {<<row>> \o rest : row \in GridRows(d, tris, i, 1),
                            rest \in GridFrom(d, tris, i + 1)}

\* The matrices griddata((x1, y1), values, (xx, yy), method='linear') may
\* return: the valid cells of d are the data, every cell is a target
griddata(d) == GridFrom(d, Simplices(ValidPoints(d)), 1)

\* The matrix refill hands to the interpolation
refill_input(d, zeros) == IF zeros THEN zeros_to_nan(d) ELSE d

\* The exception refill raises on s, "none" if it returns
refill_err(s, zeros) ==
    IF Degenerate(ValidPoints(refill_input(s.dyn, zeros))) THEN "QhullError" ELSE "none"

\* The matrices refill may leave in self.dyn (the zeros are overwritten in
\* place before the interpolation can raise)
refill_dyn(d, zeros) ==
    IF Degenerate(ValidPoints(refill_input(d, zeros))) THEN {refill_input(d, zeros)}
    ELSE griddata(refill_input(d, zeros))

\* The objects refill may leave
refill(s, zeros) == {[s EXCEPT !.dyn = m] : m \in refill_dyn(s.dyn, zeros)}

---------------------------------------------------------------------------
(* correct_band (lamsteps=False)                                           *)

\* np.sum(dyn, axis=1) in place of the mean
m_chan_means(d) == [i \in 1..NRows(d) |-> RSum(d[i])]

\* np.mean(dyn, axis=1): the mean over time of every channel
chan_means(d) == [i \in 1..NRows(d) |-> RMean(d[i])]

\* np.mean(dyn, axis=0): the mean over channels of every sub-integration
sub_means(d) == [j \in 1..NCols(d) |-> RMean(Column(d, j))]

\* np.divide(dyn, np.reshape(bandpass, [len(bandpass), 1]))
div_rows(d, bandpass) ==
    [i \in 1..NRows(d) |-> [j \in 1..NCols(d) |-> RDiv(d[i][j], bandpass[i])]]

\* np.divide(dyn, np.reshape(bandpass, [1, len(bandpass)]))
div_cols(d, bandpass) ==
    [i \in 1..NRows(d) |-> [j \in 1..NCols(d) |-> RDiv(d[i][j], bandpass[j])]]

\* The object after correct_band(time).  With time=True the attribute
\* self.dyn is first set to the matrix divided along both axes (line 577)
\* and then, in the lamsteps=False branch, set again to the local dyn, the
\* matrix divided along frequency only (line 582).
correct_band(s, time) ==
    LET bandpass1 == chan_means(s.dyn)
        dyn == div_rows(s.dyn, bandpass1)
        bandpass2 == sub_means(dyn)
        s1 == [s EXCEPT !.bandpass = bandpass1, !.has = @ \cup {"bandpass"}]
        s2 == IF time
              THEN [s1 EXCEPT !.bandpass = bandpass2, !.dyn = div_cols(dyn, bandpass2)]
              ELSE s1
    IN  [s2 EXCEPT !.dyn = dyn]

---------------------------------------------------------------------------
(* calc_acf (scale=False)                                                  *)

\* arr = self.dyn - np.mean(self.dyn)
mean_subtracted(d) ==
    LET mu == RMean(Ravel(d))
    IN  [i \in 1..NRows(d) |-> [j \in 1..NCols(d) |-> RSub(d[i][j], mu)]]

\* Entry (m, n), 0-based, of a as np.fft.fft2(a, s=[P, Q]) reads it:
\* cropped to P x Q and padded with zeros
Padded(a, m, n) ==
    IF m < NRows(a) /\ n < NCols(a) THEN a[m + 1][n + 1] ELSE R(0)

\* The sum of f[k], k = 0..n-1, of a sequence f indexed from 1
RECURSIVE SumTo(_, _)
SumTo(f, n) == IF n = 0 THEN R(0) ELSE RAdd(SumTo(f, n - 1), f[n])

\* ifft2(fft2(a, s=[P, Q])**2), the square taken without np.abs: the
\* circular convolution of the padded a with itself, at (k, l)
m_circ_autocorr(a, P, Q, k, l) ==
    SumTo([m \in 1..P |->
              SumTo([n \in 1..Q |->
                        RMul(Padded(a, m - 1, n - 1),
                             Padded(a, (k - (m - 1)) % P, (l - (n - 1)) % Q))], Q)], P)

\* ifft2(abs(fft2(a, s=[P, Q]))**2) at (k, l), 0-based: by the correlation
\* theorem the circular autocorrelation of the real, zero-padded a at lag
\* (k, l), sum over (m, n) of a[m][n] * a[(m+k) mod P][(n+l) mod Q]
circ_autocorr(a, P, Q, k, l) ==
    SumTo([m \in 1..P |->
              SumTo([n \in 1..Q |->
                        RMul(Padded(a, m - 1, n - 1),
                             Padded(a, (m - 1 + k) % P, (n - 1 + l) % Q))], Q)], P)

\* np.fft.fftshift of a P x Q grid g given by its entries g(k, l): entry
\* (i, j) of the result is g((i - P//2) mod P, (j - Q//2) mod Q)
acf_grid(a, P, Q) ==
    [i \in 1..P |-> [j \in 1..Q |->
        circ_autocorr(a, P, Q, (i - 1 - (P \div 2)) % P, (j - 1 - (Q \div 2)) % Q)]]

\* The object after calc_acf()
calc_acf(s) ==
    [s EXCEPT !.acf = acf_grid(mean_subtracted(s.dyn), 2 * s.nchan, 2 * s.nsub),
              !.has = @ \cup {"acf"}]

---------------------------------------------------------------------------
(* calc_sspec (lamsteps=False)                                             *)

\* np.ceil(np.log2(n)) for n >= 1
RECURSIVE CeilLog2(_)
CeilLog2(n) == IF n <= 1 THEN 0 ELSE 1 + CeilLog2((n + 1) \div 2)

RECURSIVE Pow2(_)
Pow2(k) == IF k = 0 THEN 1 ELSE 2 * Pow2(k - 1)

\* 2**np.ceil(np.log2(n)): the doubling of line 598 left out
m_fft_len(n) == Pow2(CeilLog2(n))

\* int(2**(np.ceil(np.log2(n))+1))
fft_len(n) == Pow2(CeilLog2(n) + 1)

\* The shape of convolve2d(in1, in2, mode='valid') for inputs of shapes a
\* and b; <<0, 0>> stands for the ValueError scipy raises when neither
\* input is at least as large as the other in every dimension
conv_valid_shape(a, b) ==
    IF (a[1] >= b[1] /\ a[2] >= b[2]) \/ (b[1] >= a[1] /\ b[2] >= a[2])
    THEN <<Abs(a[1] - b[1]) + 1, Abs(a[2] - b[2]) + 1>>
    ELSE <<0, 0>>

\* The exception calc_sspec raises on s, "none" if it returns
calc_sspec_err(s, prewhite) ==
    IF prewhite /\ conv_valid_shape(<<2, 2>>, Shape(s.dyn)) = <<0, 0>>
    THEN "ValueError" ELSE "none"

\* fd * 1/(ncfft*dt): the factor 1e3 that makes the axis mHz left out
m_doppler_axis(ncfft, dt) ==
    [i \in 1..ncfft |->
        RMul(R(i - 1 - (ncfft \div 2)), RDiv(R(1), RMul(R(ncfft), dt)))]

\* fdop = np.multiply(fd, 1e3/(ncfft*self.dt)), fd = range(-ncfft/2, ncfft/2)
doppler_axis(ncfft, dt) ==
    [i \in 1..ncfft |->
        RMul(R(i - 1 - (ncfft \div 2)), RDiv(R(1000), RMul(R(ncfft), dt)))]

\* tdel = np.divide(td, nrfft*self.df), td = range(0, nrfft/2)
delay_axis(nrfft, df) ==
    [i \in 1..(nrfft \div 2) |-> RDiv(R(i - 1), RMul(R(nrfft), df))]

\* The object after calc_sspec(prewhite) (unchanged when the call raises).
\* The stored grid log10(sec/max(sec)) is kept as what determines it: its
\* shape, the intensity it was computed from, the prewhite flag, and the
\* number of leading delay rows overwritten with NaN since (none yet).
\* Shapes: fft2(simpw, s=[nrfft, ncfft]) is nrfft x ncfft whatever simpw's
\* shape; the crop sec[int(nrfft/2):] keeps the rows from nrfft/2 on.
calc_sspec(s, prewhite) ==
    LET nf == NRows(s.dyn)
        nt == NCols(s.dyn)
        nrfft == fft_len(nf)
        ncfft == fft_len(nt)
    IN  IF calc_sspec_err(s, prewhite) # "none" THEN s
        ELSE [s EXCEPT !.sspec = [rows |-> nrfft - (nrfft \div 2),
                                  cols |-> ncfft,
                                  of |-> s.dyn,
                                  prewhite |-> prewhite,
                                  nanrows |-> 0],
                       !.fdop = doppler_axis(ncfft, s.dt),
                       !.tdel = delay_axis(nrfft, s.df),
                       !.has = @ \cup {"sspec", "fdop", "tdel"}]

---------------------------------------------------------------------------
(* zap                                                                     *)

\* The order np.sort puts floats in: ascending, NaN last
SortLe(a, b) == IsNaN(b) \/ (~IsNaN(a) /\ ~RLess(b, a))

\* The k-th entry of np.sort(q): the entry with fewer than k entries
\* strictly before it and at least k entries not after it
kth_sorted(q, k) ==
    LET before(x) == Cardinality({i \in 1..Len(q) : ~SortLe(x, q[i])})
        upto(x) == Cardinality({i \in 1..Len(q) : SortLe(q[i], x)})
    IN  q[CHOOSE i \in 1..Len(q) : before(q[i]) < k /\ k <= upto(q[i])]

np_sort(q) == [k \in 1..Len(q) |-> kth_sorted(q, k)]

\* np.median of a flattened array: NaN as soon as one entry is NaN
Median(q) ==
    LET n == Len(q)
        t == np_sort(q)
    IN  IF n = 0 \/ \E k \in 1..n : IsNaN(q[k]) THEN NaN
        ELSE IF n % 2 = 1 THEN t[(n + 1) \div 2]
        ELSE RDiv(RAdd(t[n \div 2], t[(n \div 2) + 1]), R(2))

\* method='median': the entries further than sigma median deviations from
\* the median become NaN; with a zero median deviation s is the scalar 0.
\* and nothing is selected
zap_median(d, sigma) ==
    LET med == Median(Ravel(d))
        dev == [i \in 1..NRows(d) |-> [j \in 1..NCols(d) |-> RAbs(RSub(d[i][j], med))]]
        mdev == Median(Ravel(dev))
    IN  IF mdev = R(0) THEN d
        ELSE [i \in 1..NRows(d) |-> [j \in 1..NCols(d) |->
                IF RLess(R(sigma), RDiv(dev[i][j], mdev)) THEN NaN ELSE d[i][j]]]

\* method='medfilt': scipy.signal.medfilt(self.dyn, kernel_size=m), the
\* median of the m x m window around every cell, zeros beyond the edges
\* (a NaN in the window is ordered last, as np.sort orders it)
zap_medfilt(d, m) ==
    LET h == m \div 2
        At(i, j) == IF i >= 1 /\ i <= NRows(d) /\ j >= 1 /\ j <= NCols(d)
                    THEN d[i][j] ELSE R(0)
        Window(i, j) == [k \in 1..(m * m) |->
                            At(i - h + ((k - 1) \div m), j - h + ((k - 1) % m))]
    IN  [i \in 1..NRows(d) |-> [j \in 1..NCols(d) |->
            kth_sorted(Window(i, j), ((m * m) + 1) \div 2)]]

\* self.dyn as zap leaves it for refill
zap_input(d, method, sigma, m) ==
    CASE method = "median" -> zap_median(d, sigma)
      [] method = "medfilt" -> zap_medfilt(d, m)
      [] OTHER -> d

\* The exception zap raises on s, "none" if it returns
zap_err(s, method, sigma, m) ==
    refill_err([s EXCEPT !.dyn = zap_input(s.dyn, method, sigma, m)], TRUE)

\* The objects zap may leave: it ends with self.refill()
zap(s, method, sigma, m) ==
    {[s EXCEPT !.dyn = r] : r \in refill_dyn(zap_input(s.dyn, method, sigma, m), TRUE)}

---------------------------------------------------------------------------
(* get_tau (method="acf", alpha fixed)                                     *)

\* The object as get_tau reads it: the acf is computed only if the
\* attribute does not exist yet
with_acf(s) == IF "acf" \in s.has THEN s ELSE calc_acf(s)

\* ydata = self.acf[int(self.nchan), int(self.nsub):]
tau_ydata(s) ==
    LET a == with_acf(s).acf
    IN  IF s.nchan + 1 > Len(a) THEN <<>>
        ELSE SubSeq(a[s.nchan + 1], s.nsub + 1, Len(a[s.nchan + 1]))

\* The exception get_tau raises on s: indexing beyond the stored acf, or
\* curve_fit given fewer points than the three parameters tau, amp, wn
get_tau_err(s) ==
    IF s.nchan + 1 > Len(with_acf(s).acf) THEN "IndexError"
    ELSE IF Len(tau_ydata(s)) < 3 THEN "TypeError"
    ELSE "none"

\* The object after get_tau().  The fitted parameters curve_fit returns
\* are kept as the data they were fitted to.
get_tau(s) ==
    IF get_tau_err(s) # "none" THEN with_acf(s)
    ELSE [with_acf(s) EXCEPT !.tmodel = tau_ydata(s), !.has = @ \cup {"tmodel"}]

---------------------------------------------------------------------------
(* fit_arc (lamsteps=False, plot=False)                                    *)

\* The object as fit_arc reads it: the secondary spectrum is computed, with
\* calc_sspec's defaults, only if the attribute does not exist yet
with_sspec(s) == IF "sspec" \in s.has THEN s ELSE calc_sspec(s, TRUE)

\* sspec[0:startbin, :] = np.nan on the array self.sspec names: the first
\* startbin delay rows of the stored grid are NaN from now on
mask_startbin(s, startbin) ==
    LET upto == IF startbin < s.sspec.rows THEN startbin ELSE s.sspec.rows
    IN  [s EXCEPT !.sspec.nanrows = IF upto > @ THEN upto ELSE @]

\* etaArray after n trials: ieta = sqrt_eta[ii]**2 with sqrt_eta =
\* np.arange(sqrt_eta_step, max_sqrt_eta, sqrt_eta_step), step 1e-3
etaArray(n) == [i \in 1..n |-> Norm(i * i, 1000000)]

\* np.add(sumpowL, sumpowR)/2
branch_average(sumpowL, sumpowR) ==
    [i \in 1..Len(sumpowL) |-> RDiv(RAdd(sumpowL[i], sumpowR[i]), R(2))]

\* a[~np.isnan(a)]
without_nan(a) == SelectSeq(a, LAMBDA x : ~IsNaN(x))

\* np.argmax of a non-empty 1-D array, counted from 0: the first NaN if
\* there is one, else the first entry no other entry exceeds
np_argmax(a) ==
    LET nans == {i \in 1..Len(a) : IsNaN(a[i])}
        tops == {i \in 1..Len(a) : \A j \in 1..Len(a) : ~RLess(a[i], a[j])}
        first(S) == CHOOSE i \in S : \A j \in S : i <= j
    IN  (IF nans # {} THEN first(nans) ELSE first(tops)) - 1

\* The positions, counted from 0, that lines 341-343 read etaArray at.
\* extra = len(np.where(np.isnan(sumpow))) is the length of the tuple
\* np.where returns, one index array per dimension of sumpow: 1
eta_positions(sumpowL, sumpowR) ==
    LET sumpow == branch_average(sumpowL, sumpowR)
        extra == Len(<<{i \in 1..Len(sumpow) : IsNaN(sumpow[i])}>>)
    IN  [eta |-> np_argmax(without_nan(sumpow)) + extra,
         etaL |-> np_argmax(sumpowL) + extra,
         etaR |-> np_argmax(sumpowR) + extra]

\* fit_arc_err without the else branch of lines 333-335: an unknown method
\* falls through to the selection
m_fit_arc_err(s, method, sumpowL, sumpowR) ==
    LET n == Len(sumpowL)
        at == eta_positions(sumpowL, sumpowR)
    IN  IF "sspec" \notin s.has /\ calc_sspec_err(s, TRUE) # "none"
        THEN calc_sspec_err(s, TRUE)
        ELSE IF Len(without_nan(branch_average(sumpowL, sumpowR))) = 0
             THEN "ValueError"
        ELSE IF at.eta >= n \/ at.etaL >= n \/ at.etaR >= n THEN "IndexError"
        ELSE "none"

\* The exception fit_arc raises on s, "none" if it returns.  sumpowL and
\* sumpowR are the mean powers the loop over the trial curvatures
\* appended, one per trial and branch (NaN where no sample is valid).
fit_arc_err(s, method, sumpowL, sumpowR) ==
    LET n == Len(sumpowL)
        at == eta_positions(sumpowL, sumpowR)
    IN  IF "sspec" \notin s.has /\ calc_sspec_err(s, TRUE) # "none"
        THEN calc_sspec_err(s, TRUE)
        ELSE IF method # "gridmax" THEN "ValueError"
        ELSE IF Len(without_nan(branch_average(sumpowL, sumpowR))) = 0
             THEN "ValueError"
        ELSE IF at.eta >= n \/ at.etaL >= n \/ at.etaR >= n THEN "IndexError"
        ELSE "none"

\* The object after fit_arc(method, startbin) whose loop found the mean
\* powers sumpowL and sumpowR
fit_arc(s, method, startbin, sumpowL, sumpowR) ==
    LET masked == mask_startbin(with_sspec(s), startbin)
        at == eta_positions(sumpowL, sumpowR)
    IN  IF "sspec" \notin s.has /\ calc_sspec_err(s, TRUE) # "none" THEN s
        ELSE IF fit_arc_err(s, method, sumpowL, sumpowR) # "none" THEN masked
        ELSE [masked EXCEPT !.eta = etaArray(Len(sumpowL))[at.eta + 1],
                            !.has = @ \cup {"eta"}]

---------------------------------------------------------------------------
(* norm_sspec (eta=None, delmax=None, plot=False, lamsteps=False), on an   *)
(* object whose eta and sspec exist: lines 365-373 then call nothing       *)

\* np.argmin of a non-empty 1-D array, counted from 0: the first NaN if
\* there is one, else the first entry that exceeds no other
np_argmin(a) ==
    LET nans == {i \in 1..Len(a) : IsNaN(a[i])}
        lows == {i \in 1..Len(a) : \A j \in 1..Len(a) : ~RLess(a[j], a[i])}
        first(S) == CHOOSE i \in S : \A j \in S : i <= j
    IN  (IF nans # {} THEN first(nans) ELSE first(lows)) - 1

\* ind = np.argmin(abs(self.tdel - delmax)) with delmax =
\* np.max(self.tdel)*(1400/self.freq)**2
norm_ind(s) ==
    LET q == RDiv(R(1400), s.freq)
        delmax == RMul(RMax(s.tdel), RMul(q, q))
    IN  np_argmin([i \in 1..Len(s.tdel) |-> RAbs(RSub(s.tdel[i], delmax))])

\* len(tdel) for tdel = self.tdel[startbin:ind]
norm_nrows(s, startbin) ==
    LET n == Len(s.tdel)
        lo == IF startbin < n THEN startbin ELSE n
        hi == IF norm_ind(s) < n THEN norm_ind(s) ELSE n
    IN  IF hi > lo THEN hi - lo ELSE 0

\* nfdop = len(fdop[abs(fdop) <= maxfdop]) with maxfdop =
\* maxnormfac*np.sqrt(tdel[-1]/eta), lowered to max(fdop) if above it; the
\* square roots are compared through their squares
norm_nfdop(s, startbin) ==
    LET tlast == s.tdel[norm_ind(s)]
        bound2 == RMul(R(NormMaxNormFac * NormMaxNormFac), RDiv(tlast, s.eta))
        top == RMax(s.fdop)
        capped == RLess(RMul(top, top), bound2)
    IN  Cardinality({i \in 1..Len(s.fdop) :
            IF capped THEN ~RLess(top, RAbs(s.fdop[i]))
            ELSE ~RLess(bound2, RMul(s.fdop[i], s.fdop[i]))})

\* fdopnew = np.linspace(-maxnormfac, maxnormfac, nfdop)
norm_fdopnew(nfdop) ==
    [k \in 1..nfdop |->
        IF nfdop = 1 THEN R(-NormMaxNormFac)
        ELSE RAdd(R(-NormMaxNormFac),
                  RDiv(R(2 * NormMaxNormFac * (k - 1)), R(nfdop - 1)))]

\* The positions, counted from 1, that normline[ind-cutmid:ind+cutmid+1]
\* names in a line of nfdop bins, ind = np.argmin(abs(fdopnew)): a negative
\* start counts from the end of the line
norm_centre(nfdop, cutmid) ==
    LET fdopnew == norm_fdopnew(nfdop)
        ind == np_argmin([k \in 1..nfdop |-> RAbs(fdopnew[k])])
        start == IF ind - cutmid >= 0 THEN ind - cutmid
                 ELSE IF ind - cutmid + nfdop >= 0 THEN ind - cutmid + nfdop
                 ELSE 0
        stop == IF ind + cutmid + 1 < nfdop THEN ind + cutmid + 1 ELSE nfdop
    IN  {k \in 1..nfdop : start <= k - 1 /\ k - 1 < stop}

\* ind1 = np.argmin(abs(fdopnew-1)-2) and ind2 = np.argmin(abs(fdopnew+1)-2),
\* counted from 1
norm_ind1(nfdop) ==
    np_argmin([k \in 1..nfdop |->
        RSub(RAbs(RSub(norm_fdopnew(nfdop)[k], R(1))), R(2))]) + 1

norm_ind2(nfdop) ==
    np_argmin([k \in 1..nfdop |->
        RSub(RAbs(RAdd(norm_fdopnew(nfdop)[k], R(1))), R(2))]) + 1

\* normSspec: line ii is np.interp(fdopnew, ifdop, isspec) for row
\* startbin + ii of the stored grid, given as interp[ii] for a row that
\* holds data and NaN in every bin for a row overwritten with NaN; then its
\* centre bins are set to NaN
norm_lines(s, startbin, cutmid, interp) ==
    LET nfdop == norm_nfdop(s, startbin)
    IN  [ii \in 1..norm_nrows(s, startbin) |-> [k \in 1..nfdop |->
            IF startbin + ii - 1 < s.sspec.nanrows
                    \/ k \in norm_centre(nfdop, cutmid)
            THEN NaN ELSE interp[ii][k]]]

\* isspectot after the loop: np.zeros and one np.add per line
RECURSIVE norm_total(_, _, _)
norm_total(lines, n, nfdop) ==
    IF n = 0 THEN [k \in 1..nfdop |-> R(0)]
    ELSE LET tot == norm_total(lines, n - 1, nfdop)
         IN  [k \in 1..nfdop |-> RAdd(tot[k], lines[n][k])]

\* isspecavg as stored: isspectot/len(tdel), divided by normfac, and raised
\* by 2 if it is negative at ind1
norm_average(lines, nfdop) ==
    LET tot == norm_total(lines, Len(lines), nfdop)
        avg == [k \in 1..nfdop |-> RDiv(tot[k], R(Len(lines)))]
        ind1 == norm_ind1(nfdop)
        ind2 == norm_ind2(nfdop)
        normfac == RDiv(RAdd(RAbs(avg[ind1]), RAbs(avg[ind2])), R(2))
        scaled == [k \in 1..nfdop |-> RDiv(avg[k], normfac)]
    IN  IF RLess(scaled[ind1], R(0))
        THEN [k \in 1..nfdop |-> RAdd(scaled[k], R(2))]
        ELSE scaled

\* The exception norm_sspec raises on s, "none" if it returns: tdel[-1] of
\* an empty tdel (line 382)
norm_sspec_err(s, startbin) ==
    IF norm_nrows(s, startbin) = 0 THEN "IndexError" ELSE "none"

\* The object after norm_sspec(startbin=startbin, cutmid=cutmid)
norm_sspec(s, startbin, cutmid, interp) ==
    LET lines == norm_lines(s, startbin, cutmid, interp)
    IN  IF norm_sspec_err(s, startbin) # "none" THEN s
        ELSE [s EXCEPT !.normsspecavg =
                           norm_average(lines, norm_nfdop(s, startbin)),
                       !.normsspec = lines,
                       !.has = @ \cup {"normsspec"}]

---------------------------------------------------------------------------
(* The array self.dyn names                                                *)

\* No object was copied: the constructor read a file
NoSource == [dyn |-> <<>>, given |-> <<>>, shared |-> FALSE]

\* What method name, called with args on s, leaves in the array self.dyn
\* names at entry: refill and zap('median') assign through a boolean mask
\* (lines 547 and 663), every other statement builds a new array
inplace_dyn(name, args, s) ==
    CASE name = "refill" -> refill_input(s.dyn, args[1])
      [] name = "dp_refill" -> refill_input(s.dyn, TRUE)
      [] name = "zap" /\ args[1] = "median" ->
            refill_input(zap_median(s.dyn, args[2]), TRUE)
      [] OTHER -> s.dyn

\* self.dyn names another array when the method is left: np.delete (if a
\* row was deleted), griddata (if it returned), np.divide and medfilt
\* return new arrays
rebinds(name, args, s, raised) ==
    CASE name \in {"trim_edges", "dp_trim_edges"} ->
            Len(trim_edges(s).dyn) # Len(s.dyn)
      [] name \in {"refill", "dp_refill"} -> raised = "none"
      [] name \in {"correct_band", "dp_correct_band"} -> TRUE
      [] name = "zap" -> args[1] = "medfilt" \/ raised = "none"
      [] OTHER -> FALSE

\* The source array after the method
source_after(name, args, s, raised, src) ==
    IF ~src.shared THEN src
    ELSE [src EXCEPT !.dyn = inplace_dyn(name, args, s),
                     !.shared = ~rebinds(name, args, s, raised)]

\* load_dyn_obj: the attributes of the object dyn are assigned one by one,
\* the arrays by reference
load_dyn_obj(dyn) ==
    [NoObject EXCEPT
        !.header = dyn.header, !.times = dyn.times, !.freqs = dyn.freqs,
        !.nchan = dyn.nchan, !.nsub = dyn.nsub, !.bw = dyn.bw, !.df = dyn.df,
        !.freq = dyn.freq, !.tobs = dyn.tobs, !.dt = dyn.dt, !.mjd = dyn.mjd,
        !.has = dyn.has \cap {"mjd"}, !.dyn = dyn.dyn]

---------------------------------------------------------------------------
(* default_processing (lamsteps=False)                                     *)

\* The statements of default_processing in the order of lines 175-181: each
\* names the stage reached once the statement has run
DPStages == <<"dp_trim_edges", "dp_refill", "dp_calc_acf", "dp_correct_band",
              "dp_calc_sspec">>

\* The position before the first statement, and the positions from which a
\* statement is still to run
DPPending == {"dp_start"} \cup {DPStages[k] : k \in 1..(Len(DPStages) - 1)}

\* The stage after position p, "none" when no statement is left to run
DPNext(p) ==
    IF p = "dp_start" THEN DPStages[1]
    ELSE IF p \in DPPending
         THEN DPStages[(CHOOSE k \in 1..Len(DPStages) : DPStages[k] = p) + 1]
    ELSE "none"

---------------------------------------------------------------------------
(* Method calls as actions                                                 *)

\* A method may be called once the constructor has returned, while no
\* exception has ended the script and the call budget is not used up
CanCall == err = "none" /\ ncalls < MaxCalls /\ pc \notin DPPending

Call(name, args, after, raised) ==
    /\ CanCall
    /\ self' = after
    /\ old' = self
    /\ pc' = name
    /\ arg' = args
    /\ err' = raised
    /\ ncalls' = ncalls + 1
    /\ source' = source_after(name, args, self, raised, source)

TrimEdges == Call("trim_edges", <<>>, trim_edges(self), trim_edges_err(self))

Zap ==
    \E method \in {"median", "medfilt"} : \E sigma \in ZapSigmas :
        \E after \in zap(self, method, sigma, ZapKernel) :
            Call("zap", <<method, sigma, ZapKernel>>, after,
                 zap_err(self, method, sigma, ZapKernel))

GetTau == Call("get_tau", <<>>, get_tau(self), get_tau_err(self))

\* One statement of default_processing: the stage named by DPNext(pc)
DPStep(after, raised) ==
    /\ pc \in DPPending
    /\ err = "none"
    /\ self' = after
    /\ old' = self
    /\ pc' = DPNext(pc)
    /\ err' = raised
    /\ source' = source_after(DPNext(pc), <<>>, self, raised, source)
    /\ UNCHANGED <<arg, ncalls>>

DefaultProcessing ==
    \/ /\ DPNext(pc) = "dp_trim_edges"
       /\ DPStep(trim_edges(self), trim_edges_err(self))
    \/ /\ DPNext(pc) = "dp_refill"
       /\ \E after \in refill(self, TRUE) : DPStep(after, refill_err(self, TRUE))
    \/ /\ DPNext(pc) = "dp_calc_acf"
       /\ DPStep(calc_acf(self), "none")
    \/ /\ DPNext(pc) = "dp_correct_band"
       /\ DPStep(correct_band(self, TRUE), "none")
    \/ /\ DPNext(pc) = "dp_calc_sspec"
       /\ DPStep(calc_sspec(self, TRUE), calc_sspec_err(self, TRUE))

CalcAcf == Call("calc_acf", <<>>, calc_acf(self), "none")

CalcSspec ==
    \E prewhite \in BOOLEAN :
        Call("calc_sspec", <<prewhite>>, calc_sspec(self, prewhite),
             calc_sspec_err(self, prewhite))

CorrectBand ==
    \E time \in BOOLEAN :
        Call("correct_band", <<time>>, correct_band(self, time), "none")

Refill ==
    \E zeros \in BOOLEAN : \E after \in refill(self, zeros) :
        Call("refill", <<zeros>>, after, refill_err(self, zeros))

\* The mean powers the loop of fit_arc may append for n trials
TrialPowers(n) == [1..n -> {NaN, R(1), R(3)}]

FitArc ==
    \E method \in {"gridmax", "parabfit"} : \E startbin \in ArcStartBins :
        \E n \in 0..MaxTrials : \E sumpowL \in TrialPowers(n) :
            \E sumpowR \in TrialPowers(n) :
                Call("fit_arc", <<method, startbin, sumpowL, sumpowR>>,
                     fit_arc(self, method, startbin, sumpowL, sumpowR),
                     fit_arc_err(self, method, sumpowL, sumpowR))

\* The lines np.interp may give for a delay row that holds data, over n
\* bins: level, or falling along the line
InterpLines(n) ==
    {[k \in 1..n |-> R(v)] : v \in {-1, -3}} \cup {[k \in 1..n |-> R(-k)]}

NormSspec ==
    /\ "eta" \in self.has /\ "sspec" \in self.has
    /\ \E startbin \in NormStartBins : \E cutmid \in NormCutMids :
        \E interp \in [1..norm_nrows(self, startbin) ->
                            InterpLines(IF norm_nrows(self, startbin) = 0 THEN 0
                                        ELSE norm_nfdop(self, startbin))] :
            Call("norm_sspec", <<startbin, cutmid, interp>>,
                 norm_sspec(self, startbin, cutmid, interp),
                 norm_sspec_err(self, startbin))

\* The constructor Dynspec(filename=..., process=...): with process the
\* default processing follows, statement by statement
LoadFileFrom(file, process) ==
    /\ pc = "new" /\ self = NoObject /\ err = "none"
    /\ self' = load_file(file)
    /\ old' = self
    /\ arg' = <<"load_file", file, process>>
    /\ err' = load_file_err(file)
    /\ pc' = IF process /\ load_file_err(file) = "none"
             THEN "dp_start" ELSE "load_file"
    /\ UNCHANGED <<ncalls, source>>

\* self + other: line 84 runs the default processing on the new object,
\* statement by statement; self then names the sum
AddOther(other) ==
    /\ CanCall
    /\ self' = add(self, other)
    /\ old' = self
    /\ arg' = <<"__add__", self, other>>
    /\ err' = add_err(self, other)
    /\ pc' = IF add_err(self, other) = "none" THEN "dp_start" ELSE "__add__"
    /\ ncalls' = ncalls + 1
    /\ source' = IF add_err(self, other) = "none"
                 THEN [source EXCEPT !.shared = FALSE] ELSE source

---------------------------------------------------------------------------
(* Specification of the object's life: construction, with or without the  *)
(* default processing, then any methods in any order                       *)

\* Channel i of a loaded matrix, by kind: an all-zero band edge, a channel
\* rising in time, a channel with a spike, a channel with a zero sample
LoadRow(kind, i, nsub) ==
    [j \in 1..nsub |->
        CASE kind = 0 -> R(0)
          [] kind = 1 -> R(i + j)
          [] kind = 2 -> IF j = 1 THEN R(8 * i) ELSE R(1)
          [] OTHER -> IF j = 2 THEN R(0) ELSE R(i + j)]

LoadInputs ==
    UNION {UNION {{[i \in 1..nchan |-> LoadRow(k[i], i, nsub)] :
                        k \in [1..nchan -> 0..3]} :
                  nchan \in 1..MaxChan} :
           nsub \in 1..MaxSub}

Init ==
    /\ self \in {NewDynspec(d, <<1400, 1>>, <<1, 2>>, R(10)) : d \in LoadInputs}
    /\ old = self
    /\ pc \in {"new", "dp_start"}
    /\ err = "none"
    /\ arg = <<>>
    /\ ncalls = 0
    /\ source = NoSource

Next ==
    \/ DefaultProcessing
    \/ TrimEdges
    \/ Refill
    \/ CorrectBand
    \/ Zap
    \/ CalcAcf
    \/ CalcSspec
    \/ GetTau

Spec == Init /\ [][Next]_vars

\* C1: default_processing runs trim_edges, refill, correct_band and only
\* then calc_acf and calc_sspec: when the calc_acf statement has run, the
\* bandpass correction has been made already, and when the pipeline has
\* finished the stored acf is the autocovariance of the bandpass-corrected
\* intensity the object holds.
C1_AcfAfterBandpass ==
    /\ pc = "dp_calc_acf" => "bandpass" \in self.has
    /\ (pc = "dp_calc_sspec" /\ err = "none") => self.acf = calc_acf(self).acf

\* C2: after any sequence of operations that returned, every derived grid
\* that is present was computed from the intensity the object holds now, so
\* get_tau, which reuses a stored acf, fits the autocovariance of the
\* current intensity.
C2_DerivedGridsCurrent ==
    err = "none" =>
        /\ "acf" \in self.has => self.acf = calc_acf(self).acf
        /\ "sspec" \in self.has => self.sspec.of = self.dyn
        /\ pc = "get_tau" => self.tmodel = tau_ydata(calc_acf(self))

---------------------------------------------------------------------------
(* Specification of trim_edges alone                                        *)

\* Row i of a trim_edges input, by kind: an all-zero row, a constant
\* non-zero row, a row whose entries cancel without abs, a row with a NaN
TrimRow(kind, i, nsub) ==
    [j \in 1..nsub |->
        CASE kind = 0 -> R(0)
          [] kind = 1 -> R(i)
          [] kind = 2 -> IF j = 1 THEN R(1) ELSE IF j = 2 THEN R(-1) ELSE R(0)
          [] OTHER -> IF j = 1 THEN NaN ELSE R(0)]

TrimInputs ==
    UNION {UNION {{[i \in 1..nchan |-> TrimRow(k[i], i, nsub)] :
                        k \in [1..nchan -> 0..3]} :
                  nchan \in 1..TrimMaxChan} :
           nsub \in 1..TrimMaxSub}

FreqStarts == {<<1400, 1>>, <<27605, 20>>}
ChanWidths == {<<1, 2>>, <<3, 8>>}

InitCommon ==
    /\ old = self
    /\ pc = "new"
    /\ err = "none"
    /\ arg = <<>>
    /\ ncalls = 0
    /\ source = NoSource

InitTrim ==
    /\ self \in {NewDynspec(d, f0, df, R(10)) :
                    d \in TrimInputs, f0 \in FreqStarts, df \in ChanWidths}
    /\ InitCommon

NextTrim == TrimEdges

SpecTrim == InitTrim /\ [][NextTrim]_vars

\* C3: trim_edges is idempotent: when a second trim_edges returns, the
\* intensity matrix, freqs, nchan, bw and freq are those the first one left.
C3_TrimIdempotent ==
    (pc = "trim_edges" /\ ncalls >= 2 /\ err = "none") =>
        /\ self.dyn = old.dyn
        /\ self.freqs = old.freqs
        /\ self.nchan = old.nchan
        /\ self.bw = old.bw
        /\ self.freq = old.freq

\* A second trim_edges has returned on a matrix whose first call removed
\* the lowest channel and which keeps an all-zero interior channel
C3_Witness ==
    /\ pc = "trim_edges" /\ ncalls = 2 /\ err = "none"
    /\ self.freqs[1] \notin FreqStarts
    /\ self.nchan >= 3
    /\ \E i \in 2..(self.nchan - 1) : RowSumIsZero(self.dyn[i])

\* The length of the maximal run of all-zero rows at the start of d
LeadingZeroRows(d) ==
    CHOOSE k \in 0..Len(d) :
        /\ \A i \in 1..k : RowSumIsZero(d[i])
        /\ k < Len(d) => ~RowSumIsZero(d[k + 1])

\* The length of the maximal run of all-zero rows at the end of d
TrailingZeroRows(d) ==
    CHOOSE k \in 0..Len(d) :
        /\ \A i \in (Len(d) - k + 1)..Len(d) : RowSumIsZero(d[i])
        /\ k < Len(d) => ~RowSumIsZero(d[Len(d) - k])

\* C18: on a matrix with at least one row of non-zero absolute sum,
\* trim_edges returns having removed exactly the maximal run of all-zero
\* rows at the start and the one at the end, with the freqs entries of the
\* same indices: interior rows and all columns are kept, the new first and
\* last rows have a non-zero sum, and nchan is the number of rows left.
C18_TrimExactlyEdges ==
    (pc = "trim_edges" /\ \E i \in 1..Len(old.dyn) : ~RowSumIsZero(old.dyn[i])) =>
        LET lo == LeadingZeroRows(old.dyn) + 1
            hi == Len(old.dyn) - TrailingZeroRows(old.dyn)
        IN  /\ err = "none"
            /\ self.dyn = SubSeq(old.dyn, lo, hi)
            /\ self.freqs = SubSeq(old.freqs, lo, hi)
            /\ self.nchan = Len(self.dyn)
            /\ ~RowSumIsZero(self.dyn[1])
            /\ ~RowSumIsZero(self.dyn[Len(self.dyn)])

\* trim_edges has removed the first and the last row of a five-row matrix
\* and kept an all-zero row between two non-zero rows
C18_Witness ==
    /\ pc = "trim_edges" /\ ncalls = 1 /\ err = "none"
    /\ Len(old.dyn) = 5
    /\ LeadingZeroRows(old.dyn) = 1 /\ TrailingZeroRows(old.dyn) = 1
    /\ self.nchan = 3 /\ RowSumIsZero(self.dyn[2])
    /\ NCols(self.dyn) = NCols(old.dyn)

---------------------------------------------------------------------------
(* Specification of refill alone                                           *)

\* A valid sample: distinct per cell, of either sign, some fractional
Sample(i, j) == IF (i + j) % 2 = 0 THEN R(4 * i + j) ELSE Norm(-(4 * i + j), 2)

\* A missing-value marker by kind: exact zero, NaN, +inf
Missing(kind) == CASE kind = 0 -> R(0) [] kind = 1 -> NaN [] OTHER -> Inf

\* Matrices with at most RefillMaxMissing missing cells, all of one kind
RefillInputs ==
    UNION {UNION {{[i \in 1..nchan |-> [j \in 1..nsub |->
                        IF <<i, j>> \in gone THEN Missing(kind) ELSE Sample(i, j)]] :
                      gone \in {g \in SUBSET ((1..nchan) \X (1..nsub)) :
                                    Cardinality(g) <= RefillMaxMissing},
                      kind \in 0..2} :
                  nchan \in 1..RefillMaxChan} :
           nsub \in 1..RefillMaxSub}

InitRefill ==
    /\ self \in {NewDynspec(d, <<1400, 1>>, <<1, 2>>, R(10)) : d \in RefillInputs}
    /\ InitCommon

NextRefill == pc = "new" /\ Refill

SpecRefill == InitRefill /\ [][NextRefill]_vars

IsMissing(v) == ~IsFinite(v) \/ v = R(0)

\* C4: refill(zeros=True) keeps the shape and leaves every entry that was
\* finite and non-zero before the call unchanged at its position; a matrix
\* without missing values is left as it was.
C4_RefillKeepsValid ==
    (pc = "refill" /\ arg = <<TRUE>>) =>
        /\ Shape(self.dyn) = Shape(old.dyn)
        /\ \A i \in 1..NRows(old.dyn) : \A j \in 1..NCols(old.dyn) :
              ~IsMissing(old.dyn[i][j]) => self.dyn[i][j] = old.dyn[i][j]
        /\ (\A i \in 1..NRows(old.dyn) : \A j \in 1..NCols(old.dyn) :
              ~IsMissing(old.dyn[i][j])) => self.dyn = old.dyn

\* refill(zeros=True) has returned, having filled an exact zero with an
\* interpolated value next to valid samples
C4_Witness ==
    /\ pc = "refill" /\ arg = <<TRUE>> /\ err = "none"
    /\ \E i \in 1..NRows(old.dyn) : \E j \in 1..NCols(old.dyn) :
          old.dyn[i][j] = R(0) /\ IsFinite(self.dyn[i][j]) /\ self.dyn[i][j] # R(0)
    /\ \E i \in 1..NRows(old.dyn) : \E j \in 1..NCols(old.dyn) :
          ~IsMissing(old.dyn[i][j])

---------------------------------------------------------------------------
(* Specification of correct_band alone                                     *)

\* Channel i of a correct_band input, by kind: constant, rising in time,
\* alternating in sign, with one NaN
BandRow(kind, i, nsub) ==
    [j \in 1..nsub |->
        CASE kind = 0 -> R(i)
          [] kind = 1 -> R(i + j * j)
          [] kind = 2 -> IF j % 2 = 1 THEN R(1) ELSE R(-1)
          [] OTHER -> IF j = 1 THEN NaN ELSE R(j)]

\* The matrices of up to maxchan channels of these kinds and up to maxsub
\* sub-integrations
RowInputs(maxchan, maxsub) ==
    UNION {UNION {{[i \in 1..nchan |-> BandRow(k[i], i, nsub)] :
                        k \in [1..nchan -> 0..3]} :
                  nchan \in 1..maxchan} :
           nsub \in 1..maxsub}

BandInputs == RowInputs(BandMaxChan, BandMaxSub)

InitBand ==
    /\ self \in {NewDynspec(d, <<1400, 1>>, <<1, 2>>, R(10)) : d \in BandInputs}
    /\ InitCommon

NextBand == pc = "new" /\ CorrectBand

SpecBand == InitBand /\ [][NextBand]_vars

\* No entry of d is missing and no channel of d has mean zero
Flattenable(d) ==
    /\ AllFinite(d)
    /\ \A i \in 1..NRows(d) : RMean(d[i]) # R(0)

\* C5: after correct_band(time=False) on a matrix without missing values
\* and with non-zero channel means, every channel of the stored intensity
\* has mean 1 over time and the stored bandpass is the vector of the
\* channel means before the call, of length nchan.
C5_BandRowMeansOne ==
    (pc = "correct_band" /\ arg = <<FALSE>> /\ Flattenable(old.dyn)) =>
        /\ \A i \in 1..NRows(self.dyn) : RMean(self.dyn[i]) = R(1)
        /\ "bandpass" \in self.has
        /\ Len(self.bandpass) = self.nchan
        /\ \A i \in 1..self.nchan : self.bandpass[i] = RMean(old.dyn[i])

\* correct_band(time=False) has run on a matrix of several channels with
\* different, time-varying gains
C5_Witness ==
    /\ pc = "correct_band" /\ arg = <<FALSE>> /\ Flattenable(old.dyn)
    /\ self.nchan >= 2 /\ self.nsub >= 2
    /\ self.bandpass[1] # self.bandpass[2]
    /\ self.bandpass[1] # R(1)
    /\ old.dyn[1][1] # old.dyn[1][2]

\* C6: after correct_band(time=True) the stored intensity is the matrix
\* divided by its channel means and then by the sub-integration means of
\* the once-divided matrix, so every sub-integration has mean 1.
C6_BandTwiceFlattened ==
    LET once == div_rows(old.dyn, chan_means(old.dyn))
    IN  (/\ pc = "correct_band" /\ arg = <<TRUE>> /\ Flattenable(old.dyn)
         /\ \A j \in 1..NCols(once) : sub_means(once)[j] # R(0)) =>
            /\ self.dyn = div_cols(once, sub_means(once))
            /\ \A j \in 1..NCols(self.dyn) : RMean(Column(self.dyn, j)) = R(1)

---------------------------------------------------------------------------
(* Specification of calc_acf alone                                         *)

InitAcf ==
    /\ self \in {NewDynspec(d, <<1400, 1>>, <<1, 2>>, R(10)) :
                    d \in RowInputs(AcfMaxChan, AcfMaxSub)}
    /\ InitCommon

NextAcf == pc = "new" /\ CalcAcf

SpecAcf == InitAcf /\ [][NextAcf]_vars

\* The total power of the mean-subtracted matrix: the autocovariance at
\* zero lag
ZeroLagPower(d) ==
    LET a == Ravel(mean_subtracted(d))
    IN  RSum([k \in 1..Len(a) |-> RMul(a[k], a[k])])

\* C7: for a real-valued matrix the grid calc_acf stores is 2*nchan by
\* 2*nsub, holds the zero-lag value at index (nchan, nsub), and is the same
\* at lags (i, j) and (-i, -j) wherever both indices are inside the grid.
C7_AcfSymmetric ==
    (pc = "calc_acf" /\ AllFinite(old.dyn)) =>
        LET nchan == self.nchan
            nsub == self.nsub
        IN  /\ "acf" \in self.has
            /\ Shape(self.acf) = <<2 * nchan, 2 * nsub>>
            /\ self.acf[nchan + 1][nsub + 1] = ZeroLagPower(old.dyn)
            /\ \A i \in (1 - nchan)..(nchan - 1) : \A j \in (1 - nsub)..(nsub - 1) :
                  self.acf[nchan + 1 + i][nsub + 1 + j]
                      = self.acf[nchan + 1 - i][nsub + 1 - j]

\* calc_acf has run on a matrix of several channels and sub-integrations
\* whose autocovariance differs between two non-zero lags
C7_Witness ==
    /\ pc = "calc_acf" /\ AllFinite(old.dyn)
    /\ self.nchan >= 2 /\ self.nsub >= 2
    /\ self.acf[self.nchan + 2][self.nsub + 1] # self.acf[self.nchan + 1][self.nsub + 2]
    /\ self.acf[self.nchan + 2][self.nsub + 2] # R(0)

---------------------------------------------------------------------------
(* Specification of calc_sspec alone                                       *)

SubIntLengths == {<<1, 1>>, <<10, 1>>}

InitSspec ==
    /\ self \in {NewDynspec(d, <<1400, 1>>, df, dt) :
                    d \in RowInputs(SspecMaxChan, SspecMaxSub),
                    df \in ChanWidths, dt \in SubIntLengths}
    /\ InitCommon

NextSspec == pc = "new" /\ CalcSspec

SpecSspec == InitSspec /\ [][NextSspec]_vars

IsPow2(p) == \E k \in 0..p : Pow2(k) = p

\* The smallest power of two strictly greater than n
SmallestPow2Above(n) ==
    CHOOSE p \in 1..(2 * n + 2) :
        IsPow2(p) /\ p > n /\ \A q \in 1..(p - 1) : ~(IsPow2(q) /\ q > n)

\* The smallest power of two greater than or equal to n
SmallestPow2AtLeast(n) ==
    CHOOSE p \in 1..(2 * n + 2) :
        IsPow2(p) /\ p >= n /\ \A q \in 1..(p - 1) : ~(IsPow2(q) /\ q >= n)

\* The transform lengths calc_sspec used, read off the stored axes
UsedNcfft == Len(self.fdop)
UsedNrfft == 2 * Len(self.tdel)

\* C8 as stated: nrfft and ncfft are the smallest powers of two strictly
\* greater than 2*nchan and 2*nsub.
C8_FftLenAbove ==
    (pc = "calc_sspec" /\ err = "none") =>
        /\ UsedNrfft = SmallestPow2Above(2 * old.nchan)
        /\ UsedNcfft = SmallestPow2Above(2 * old.nsub)

\* C8 as amended: nrfft and ncfft are the smallest powers of two greater
\* than or equal to 2*nchan and 2*nsub (nsub = 4 gives ncfft = 8).
C8_FftLenAtLeast ==
    (pc = "calc_sspec" /\ err = "none") =>
        /\ UsedNrfft = SmallestPow2AtLeast(2 * old.nchan)
        /\ UsedNcfft = SmallestPow2AtLeast(2 * old.nsub)

\* calc_sspec has run on 4 sub-integrations and 3 channels: ncfft = 8 and
\* nrfft = 8
C8_Witness ==
    /\ pc = "calc_sspec" /\ err = "none"
    /\ old.nsub = 4 /\ UsedNcfft = 8
    /\ old.nchan = 3 /\ UsedNrfft = 8

\* C9: after calc_sspec, prewhite on or off, fdop[i] = (i - ncfft/2) *
\* 1000/(ncfft*dt) for i in 0..ncfft-1, tdel[i] = i/(nrfft*df) for i in
\* 0..nrfft/2-1, and the stored secondary spectrum has len(tdel) rows and
\* len(fdop) columns, nrfft/2 by ncfft.
C9_AxisCalibration ==
    (pc = "calc_sspec" /\ err = "none") =>
        LET nrfft == fft_len(old.nchan)
            ncfft == fft_len(old.nsub)
        IN  /\ {"sspec", "fdop", "tdel"} \subseteq self.has
            /\ Len(self.fdop) = ncfft
            /\ \A i \in 0..(ncfft - 1) :
                  self.fdop[i + 1] = RDiv(R((i - (ncfft \div 2)) * 1000),
                                          RMul(R(ncfft), self.dt))
            /\ Len(self.tdel) = nrfft \div 2
            /\ \A i \in 0..((nrfft \div 2) - 1) :
                  self.tdel[i + 1] = RDiv(R(i), RMul(R(nrfft), self.df))
            /\ self.sspec.rows = Len(self.tdel)
            /\ self.sspec.cols = Len(self.fdop)
            /\ self.sspec.rows = nrfft \div 2 /\ self.sspec.cols = ncfft

\* calc_sspec has run with prewhite on a 3 x 4 matrix with dt = 1 s: the
\* Doppler bins are 125 mHz apart
C9_Witness ==
    /\ pc = "calc_sspec" /\ err = "none" /\ arg = <<TRUE>>
    /\ old.nchan = 3 /\ old.nsub = 4 /\ self.dt = R(1)
    /\ RSub(self.fdop[2], self.fdop[1]) = R(125)
    /\ self.sspec.rows = 4 /\ self.sspec.cols = 8

---------------------------------------------------------------------------
(* Specification of fit_arc alone                                          *)

\* Objects with and without a secondary spectrum computed before the call
ArcInputs ==
    {[i \in 1..nchan |-> BandRow(1, i, nsub)] :
        nchan \in 1..ArcMaxChan, nsub \in 1..ArcMaxSub}

InitArc ==
    /\ \E d \in ArcInputs :
          LET o == NewDynspec(d, <<1400, 1>>, <<1, 2>>, R(10))
          IN  self \in {o, calc_sspec(o, FALSE)}
    /\ InitCommon

NextArc == pc = "new" /\ FitArc

SpecArc == InitArc /\ [][NextArc]_vars

\* The trials whose branch-averaged mean power is not NaN and is exceeded
\* by no other, counted from 1 in the full list of trials
BestTrials(sumpowL, sumpowR) ==
    LET sumpow == branch_average(sumpowL, sumpowR)
    IN  {i \in 1..Len(sumpow) :
            /\ ~IsNaN(sumpow[i])
            /\ \A j \in 1..Len(sumpow) : ~RLess(sumpow[i], sumpow[j])}

\* C10: with method 'gridmax' the eta that fit_arc stores is the trial
\* curvature whose branch-averaged mean power is the greatest among the
\* trials with a non-NaN mean, at its position in the full trial array.
C10_EtaIsArgmax ==
    (pc = "fit_arc" /\ err = "none" /\ arg[1] = "gridmax") =>
        \E i \in BestTrials(arg[3], arg[4]) :
            self.eta = etaArray(Len(arg[3]))[i]

\* Every trial has a NaN branch-averaged mean power (and there is a trial)
AllTrialsNaN(sumpowL, sumpowR) ==
    /\ Len(sumpowL) > 0
    /\ \A i \in 1..Len(sumpowL) : IsNaN(branch_average(sumpowL, sumpowR)[i])

\* C11: when every trial curvature yields a NaN mean power, fit_arc with
\* 'gridmax' does not raise, and the eta it stores is NaN.
C11_AllNaNPropagates ==
    (pc = "fit_arc" /\ arg[1] = "gridmax" /\ "sspec" \in old.has
        /\ AllTrialsNaN(arg[3], arg[4])) =>
            (err = "none" /\ "eta" \in self.has /\ IsNaN(self.eta))

\* C12: fit_arc called with a method name other than 'gridmax' raises
\* ValueError and stores no curvature eta on the object.
C12_UnknownMethodRaises ==
    (pc = "fit_arc" /\ arg[1] # "gridmax") =>
        (err = "ValueError" /\ "eta" \notin self.has /\ self.eta = old.eta)

\* fit_arc('parabfit') was called on an object holding a secondary spectrum,
\* with trial powers 'gridmax' would have selected from, and raised
C12_Witness ==
    /\ pc = "fit_arc" /\ arg[1] = "parabfit" /\ err = "ValueError"
    /\ "sspec" \in old.has
    /\ arg[3] = <<R(1), R(3), R(1)>> /\ arg[4] = <<R(1), R(3), R(1)>>
    /\ fit_arc_err(old, "gridmax", arg[3], arg[4]) = "none"

\* C24: fit_arc leaves the stored secondary spectrum as it was (as
\* calc_sspec computes it, if fit_arc had to compute it), whether it
\* returns or raises: the first startbin delay rows are masked in a working
\* copy only.
C24_SspecUnchanged ==
    (pc = "fit_arc" /\ "sspec" \in self.has) => self.sspec = with_sspec(old).sspec

---------------------------------------------------------------------------
(* Specification of norm_sspec alone                                       *)

\* startbin of the fit_arc that ran before: no mask, two rows, the default
NormMasks == {0, 2, 9}

\* Matrices of constant channels
NormInputs ==
    {[i \in 1..nchan |-> BandRow(0, i, nsub)] :
        nchan \in 1..NormMaxChan, nsub \in 1..NormMaxSub}

\* Objects on which calc_sspec and then fit_arc(startbin=b) have returned
InitNorm ==
    /\ \E d \in NormInputs : \E b \in NormMasks :
          self = fit_arc(calc_sspec(NewDynspec(d, <<1400, 1>>, <<1, 2>>, R(10)),
                                    FALSE),
                         "gridmax", b, <<R(3), R(1)>>, <<R(3), R(1)>>)
    /\ InitCommon

NextNorm == pc = "new" /\ NormSspec

SpecNorm == InitNorm /\ [][NextNorm]_vars

\* Some retained row holds a number at bin k
SomeRowValid(lines, k) == \E r \in 1..Len(lines) : ~IsNaN(lines[r][k])

\* C23: the lines are averaged NaN-aware: where the bins at ind1 and ind2,
\* which the profile is scaled by, hold a number in some retained row, a
\* bin of the stored average is NaN only if it is NaN in every retained
\* row; a NaN in some rows only is left out of that bin's mean.
C23_NanAwareAverage ==
    (pc = "norm_sspec" /\ err = "none"
        /\ SomeRowValid(self.normsspec, norm_ind1(Len(self.normsspecavg)))
        /\ SomeRowValid(self.normsspec, norm_ind2(Len(self.normsspecavg)))) =>
        \A k \in 1..Len(self.normsspecavg) :
            IsNaN(self.normsspecavg[k]) => ~SomeRowValid(self.normsspec, k)

---------------------------------------------------------------------------
(* Specification of load_file                                              *)

\* The spacings of the channels of a file, in MHz, of either sign
FileSteps == {<<1, 2>>, <<-1, 2>>, <<-1, 8>>, <<-1, 400>>}

\* The file of nsub sub-integrations of 10 s and nchan channels step apart
\* from 1400 MHz, rows in the order psrflux writes them (channels within
\* sub-integrations); without its last row when not whole
FileOf(nsub, nchan, step, withmjd, whole) ==
    LET all == [r \in 1..(nsub * nchan) |->
                  LET isub == (r - 1) \div nchan
                      ichan == (r - 1) % nchan
                  IN  [isub |-> R(isub), ichan |-> R(ichan),
                       tmin |-> Norm((2 * isub + 1) * 5, 60),
                       freq |-> RAdd(R(1400), RMul(R(ichan), step)),
                       flux |-> R(1 + ichan + 3 * isub)]]
    IN  [header |-> IF withmjd THEN <<<<"NSUB:", R(nsub)>>, <<"MJD0:", R(10)>>>>
                    ELSE <<<<"NSUB:", R(nsub)>>>>,
         rows |-> IF whole THEN all ELSE SubSeq(all, 1, Len(all) - 1)]

LoadFiles ==
    {f \in {FileOf(nsub, nchan, step, withmjd, whole) :
                nsub \in 1..LoadMaxSub, nchan \in 1..LoadMaxChan,
                step \in FileSteps, withmjd \in BOOLEAN, whole \in BOOLEAN} :
        Len(f.rows) >= 1}

LoadFile == \E file \in LoadFiles : \E process \in BOOLEAN : LoadFileFrom(file, process)

InitLoad == self = NoObject /\ InitCommon

NextLoad == LoadFile \/ DefaultProcessing

SpecLoad == InitLoad /\ [][NextLoad]_vars

\* load_file has built the object from the file arg[1] without raising
Loaded ==
    /\ pc \in {"load_file", "dp_start"} /\ err = "none"
    /\ arg # <<>> /\ arg[1] = "load_file"

FileChans(file) == Cardinality({file.rows[r].ichan : r \in 1..Len(file.rows)})
FileSpacing(file) == RSub(file.rows[2].freq, file.rows[1].freq)

\* The channels of the file are listed in descending, ascending frequency
FileDescending(file) == FileChans(file) >= 2 /\ RLess(FileSpacing(file), R(0))
FileAscending(file) == FileChans(file) >= 2 /\ RLess(R(0), FileSpacing(file))

\* Row i of d holds, for every sub-integration, the flux the file gives at
\* frequency freqs[i]
RowsFollowFreqs(file, d, freqs) ==
    \A i \in 1..Len(d) : \A j \in 1..Len(d[i]) :
        \E r \in 1..Len(file.rows) :
            /\ file.rows[r].freq = freqs[i]
            /\ file.rows[r].isub = R(j - 1)
            /\ file.rows[r].flux = d[i][j]

\* What C14 and its amendment share: freqs strictly ascending, row i holds
\* the fluxes of freqs[i], the rows reversed exactly for a descending file
FlippedToAscending(file) ==
    /\ Len(self.freqs) = FileChans(file)
    /\ \A i \in 1..(Len(self.freqs) - 1) : RLess(self.freqs[i], self.freqs[i + 1])
    /\ Len(self.dyn) = FileChans(file)
    /\ RowsFollowFreqs(file, self.dyn, self.freqs)
    /\ FileAscending(file) =>
            self.dyn = reshape_fluxes(file, self.nsub, self.nchan)
    /\ FileDescending(file) =>
            self.dyn = flip_rows(reshape_fluxes(file, self.nsub, self.nchan))

---------------------------------------------------------------------------
(* Specification of __add__: one addition and the processing of the sum    *)

\* Channel i of a record to add, by kind: constant in time, rising in time
AddRow(kind, i, nsub) ==
    [j \in 1..nsub |-> IF kind = 0 THEN R(i) ELSE R(i + 2 * j)]

AddInputs ==
    UNION {UNION {{[i \in 1..nchan |-> AddRow(k, i, nsub)] : k \in 0..1} :
                  nchan \in 1..AddMaxChan} :
           nsub \in 1..AddMaxSub}

\* The start of the second record, in seconds after the start of the first
AddOffsets == {0, 20, 35, 40}

\* The second records: of either channel width, starting at one of the
\* offsets, and one loaded from a file without an MJD0 line
AddOperands ==
    {[NewDynspec(d, <<1400, 1>>, df, R(10)) EXCEPT
            !.mjd = Norm(10 * 86400 + t, 86400)] :
        d \in {m \in AddInputs : NCols(m) = 1}, df \in {<<1, 2>>, <<1, 1>>},
        t \in AddOffsets}
    \cup {[NewDynspec(<<<<R(1)>>, <<R(2)>>>>, <<1400, 1>>, <<1, 2>>, R(10))
                EXCEPT !.mjd = NaN, !.has = {}]}

Add == \E other \in AddOperands : AddOther(other)

InitAdd ==
    /\ self \in {NewDynspec(d, <<1400, 1>>, <<1, 2>>, R(10)) : d \in AddInputs}
    /\ InitCommon

NextAdd == (pc = "new" /\ Add) \/ DefaultProcessing

SpecAdd == InitAdd /\ [][NextAdd]_vars

\* self + other was called on operands that both hold an mjd
AddCalled == arg # <<>> /\ arg[1] = "__add__" /\ "mjd" \in arg[3].has

\* The gap between the end of first and the start of other, in seconds
GapSeconds(first, other) ==
    RSub(RMul(RSub(other.mjd, first.mjd), R(86400)), first.tobs)

\* The number of samples dt apart, starting at dt/2, below the gap
GapSamples(first, other) ==
    Cardinality({k \in 0..AddMaxExtra :
        RLess(RAdd(RDiv(first.dt, R(2)), RMul(R(k), first.dt)),
              GapSeconds(first, other))})

\* C15: adding two records of the same height yields a combined record
\* with nsub = first.nsub + nextra + second.nsub, nextra the number of
\* dt-spaced samples from dt/2 below the gap, tobs = first.tobs + gap +
\* second.tobs, mjd the earlier of the two, header the two headers in order.
C15_SumOfRecords ==
    (AddCalled /\ NRows(arg[2].dyn) = NRows(arg[3].dyn)) =>
        LET first == arg[2]
            other == arg[3]
        IN  /\ pc # "__add__"
            /\ self.nsub = first.nsub + GapSamples(first, other) + other.nsub
            /\ self.tobs = RAdd(RAdd(first.tobs, GapSeconds(first, other)), other.tobs)
            /\ self.mjd = IF RLess(other.mjd, first.mjd) THEN other.mjd ELSE first.mjd
            /\ self.header = first.header \o other.header

\* The sum has been assembled and its processing has not started
Added == AddCalled /\ pc = "dp_start"

\* The columns of the assembled matrix are those of first, then nextra
\* columns holding v in every channel, then those of other
GapColumnsHold(v) ==
    LET first == arg[2]
        other == arg[3]
        n1 == NCols(first.dyn)
        nextra == GapSamples(first, other)
    IN  /\ NCols(self.dyn) = n1 + nextra + NCols(other.dyn)
        /\ \A i \in 1..NRows(self.dyn) :
              /\ SubSeq(self.dyn[i], 1, n1) = first.dyn[i]
              /\ \A j \in (n1 + 1)..(n1 + nextra) : self.dyn[i][j] = v
              /\ SubSeq(self.dyn[i], n1 + nextra + 1, NCols(self.dyn)) = other.dyn[i]

\* C16 as claimed: in the matrix record addition assembles, every gap
\* column between the first and second record's intensity holds NaN in
\* every channel, and there are as many gap columns as gap sub-integrations.
C16_GapColumnsNaN == Added => GapColumnsHold(NaN)

\* C16 amended: every gap column holds 0, the value the default refill
\* treats as missing, in every channel, and there are as many gap columns
\* as gap sub-integrations.
C16_GapColumnsZero == Added => GapColumnsHold(R(0))

\* Two records of two channels were added across a gap of two
\* sub-integrations
C16_Witness ==
    /\ Added /\ NRows(self.dyn) = 2
    /\ GapSamples(arg[2], arg[3]) = 2
    /\ NCols(self.dyn) = NCols(arg[2].dyn) + 2 + NCols(arg[3].dyn)

\* C17: when the two records differ in freq, bw or df, addition completes
\* and the combined record carries the first record's freq, bw, df, freqs
\* and nchan: the mismatch never makes the addition fail.
C17_MismatchOnlyWarns ==
    (AddCalled /\ GapSamples(arg[2], arg[3]) >= 1
        /\ (arg[2].freq # arg[3].freq \/ arg[2].bw # arg[3].bw
                \/ arg[2].df # arg[3].df)) =>
        /\ pc # "__add__"
        /\ pc = "dp_start" =>
              /\ self.freq = arg[2].freq /\ self.bw = arg[2].bw
              /\ self.df = arg[2].df /\ self.freqs = arg[2].freqs
              /\ self.nchan = arg[2].nchan

\* C21: every record satisfies tobs = dt * nsub: the records added do, and
\* so does their sum, whatever the gap between them, a gap that is no
\* whole multiple of dt included.
C21_TobsIsDtNsub == err = "none" => self.tobs = RMul(self.dt, R(self.nsub))

\* times[j] < times[j + 1] for every j
StrictlyIncreasing(times) ==
    \A j \in 1..(Len(times) - 1) : RLess(times[j], times[j + 1])

\* C22: when the two records have the same dt (and, here, the same
\* channels) and the second starts at or after the end of the first (a gap
\* of 0 or of at most dt/2 included), the addition succeeds and the times
\* of the sum are strictly increasing and as many as its nsub.
C22_AddAfterEndSucceeds ==
    (AddCalled /\ arg[2].dt = arg[3].dt /\ arg[2].nchan = arg[3].nchan
        /\ ~RLess(GapSeconds(arg[2], arg[3]), R(0))) =>
        /\ pc # "__add__"
        /\ pc = "dp_start" =>
              /\ StrictlyIncreasing(self.times)
              /\ Len(self.times) = self.nsub

---------------------------------------------------------------------------
(* Specification of an object constructed from another object             *)

\* Dynspec(dyn=o, process=...) for an object o holding a loaded matrix
InitOwn ==
    /\ \E d \in LoadInputs :
          /\ self = load_dyn_obj(NewDynspec(d, <<1400, 1>>, <<1, 2>>, R(10)))
          /\ source = [dyn |-> d, given |-> d, shared |-> TRUE]
    /\ old = self
    /\ pc \in {"new", "dp_start"}
    /\ err = "none"
    /\ arg = <<>>
    /\ ncalls = 0

SpecOwn == InitOwn /\ [][Next]_vars

\* C19: whatever pipeline stages run on an object constructed from another
\* object, with or without the default processing, the intensity matrix of
\* that other object stays as it was: the two share no mutable array.
C19_SourceUnchanged == source.dyn = source.given

---------------------------------------------------------------------------
(* Specification of sequences of pipeline stages and additions             *)

\* Channel i of a record of the sequences: an all-zero band edge, or a
\* channel of constant flux with a zero sample in channel 2
SeqRow(kind, i, nsub) ==
    [j \in 1..nsub |->
        IF kind = 0 \/ (i = 2 /\ j = 2) THEN R(0) ELSE R(i)]

\* Matrices whose first channel may be a band edge
SeqInputs ==
    UNION {UNION {{[i \in 1..nchan |-> SeqRow(IF i = 1 THEN k ELSE 1, i, nsub)] :
                        k \in 0..1} :
                  nchan \in 1..SeqMaxChan} :
           nsub \in 1..SeqMaxSub}

\* The start of a record to add, in seconds after the start of the first,
\* for a record that holds the first channel of the band (lead = 0) and
\* for one that does not: the later start lets a second addition follow
SeqOffsets(lead) == IF lead = 0 THEN {20} ELSE {20, 40}

\* The records to add: one sub-integration of the same band, with its
\* first channel, which may be a band edge, or without it
SeqOperands ==
    UNION {{[NewDynspec([i \in 1..(SeqMaxChan - lead) |->
                            SeqRow(IF i + lead = 1 THEN k ELSE 1, i + lead, 1)],
                        RAdd(<<1400, 1>>, RMul(R(lead), <<1, 2>>)), <<1, 2>>, R(10))
                EXCEPT !.mjd = Norm(10 * 86400 + t, 86400)] :
            t \in SeqOffsets(lead), k \in 0..1} : lead \in 0..1}

AddSeq == \E other \in SeqOperands : AddOther(other)

InitSeq ==
    /\ self \in {NewDynspec(d, <<1400, 1>>, <<1, 2>>, R(10)) : d \in SeqInputs}
    /\ InitCommon

NextSeq ==
    \/ DefaultProcessing
    \/ TrimEdges
    \/ Refill
    \/ CorrectBand
    \/ Zap
    \/ CalcAcf
    \/ CalcSspec
    \/ AddSeq

SpecSeq == InitSeq /\ [][NextSeq]_vars

\* C20: after any sequence of trim_edges, refill, correct_band, zap,
\* calc_acf, calc_sspec and additions that have returned, on a record that
\* started consistent, nchan is the length of freqs and the number of rows
\* of the intensity matrix, and nsub is the length of times and the number
\* of its columns.
C20_ShapesConsistent ==
    err = "none" =>
        /\ self.nchan = Len(self.freqs)
        /\ self.nchan = NRows(self.dyn)
        /\ self.nsub = Len(self.times)
        /\ self.nsub = NCols(self.dyn)

\* A record that lost its band edge to trim_edges was added to a record
\* starting after a gap, and the processing of the sum has finished
C20_Witness ==
    /\ pc = "dp_calc_sspec" /\ err = "none" /\ ncalls = 2
    /\ arg[1] = "__add__"
    /\ arg[2].freqs[1] = <<2801, 2>>
    /\ arg[2].nchan = 2
    /\ self.nchan = 2
    /\ self.nsub > arg[2].nsub + arg[3].nsub

=============================================================================
